---------------------------- MODULE Spec2Model ----------------------------
(***************************************************************************)
(* Model of the IoT temperature device of src/iot_device.py: the bounded   *)
(* retry loop of IoTDevice.send_data and the supervising loop of           *)
(* IoTDevice.run, with the exceptions (cancellation included) that the     *)
(* blocking calls of one iteration can raise.                              *)
(***************************************************************************)
EXTENDS Integers, Sequences, FiniteSets, TLC

(***************************************************************************)
(* Program constants.                                                      *)
(***************************************************************************)
max_retries == 3
retry_delay == 2
interval == 5
max_consecutive_failures == 5
CooldownSecs == 30
BackoffSecs == 10

(***************************************************************************)
(* Bound of the model: the number of iterations of the while loop of run() *)
(* that are started.                                                       *)
(***************************************************************************)
MaxCycles == 7

(***************************************************************************)
(* Bound of the model: temperatures and their bounds are counted in        *)
(* thousandths of a degree and lie in -GenSpan..GenSpan.                   *)
(***************************************************************************)
GenSpan == 25

(***************************************************************************)
(* Bounds of the model of the receiver: the number of POST /webhook        *)
(* requests it handles, and the number of its request threads.             *)
(***************************************************************************)
MaxPosts == 3
MaxReadings == 2
NThreads == 2

(***************************************************************************)
(* What one session.post can end in: a response with a valid HTTP status   *)
(* (100..599), or an exception.  KeyboardInterrupt is the cancellation     *)
(* signal; it is a BaseException and no Exception.                         *)
(***************************************************************************)
Statuses == {101, 200, 204, 304, 404, 429, 500, 503}
PostExceptions ==
    {"ConnectionError", "Timeout", "RequestException", "Exception",
     "KeyboardInterrupt"}
NoResult == [kind |-> "none", status |-> 0]
PostResults ==
    {[kind |-> "response", status |-> s] : s \in Statuses}
        \cup {[kind |-> k, status |-> 0] : k \in PostExceptions}

\* What a blocking call other than the post can end in.
CallEvents == {"done", "Exception", "KeyboardInterrupt"}

VARIABLES
    pc,                   \* position of the single control thread
    session,              \* "open" | "closed": self.session
    close_count,          \* number of session.close() calls made
    exit_kind,            \* how run() ended: "none" | "break" | "fatal" | "interrupt"
    consecutive_failures, \* local of run()
    attempt,              \* loop variable of send_data
    requests,             \* requests issued by the current send_data call
    sleeps,               \* retry_delay sleeps begun by the current send_data call
    sleep_secs,           \* duration of the sleep the thread is in (0: none)
    ret,                  \* value the last send_data call returned, "none" before
    last,                 \* result of the last request
    all_retryable,        \* every result of the current call was a retryable failure
    returned,             \* <<exit point, value>> pairs send_data has returned by
    exc,                  \* exception the last step raised into run(), or "none"
    cancel_at,            \* where a KeyboardInterrupt arrived, "none" before
    cycles,               \* iterations of the while loop started
    since_delivered,      \* deliveries completed since the last Delivered one
    at_reset,             \* since_delivered at the last cooldown reset after it
    data,                 \* the reading of the current cycle (0: none yet)
    carried,              \* the reading the last request carried (0: none yet)
    finished,             \* the readings send_data has returned for
    gen_pc,               \* generator: "idle" | "configured" | "generated"
    min_temp,             \* self.min_temp, in thousandths
    max_temp,             \* self.max_temp, in thousandths
    temperature,          \* the temperature of the reading last generated
    received_data,        \* receiver: the list of stored records
    clock,                \* receiver: POST /webhook requests taken up so far
    resp,                 \* receiver: the last response of a sequential handler
    req_ok,               \* the last body posted was complete and well formed
    sent,                 \* the reading of the last device post (NoReading: none)
    th,                   \* receiver: the state of each request thread
    inflight,             \* network: the requests the device has issued
    waiting               \* network: the request send_data waits on (0: none)

devVars ==
    <<pc, session, close_count, exit_kind, consecutive_failures, attempt,
      requests, sleeps, sleep_secs, ret, last, all_retryable, returned, exc,
      cancel_at, cycles, since_delivered, at_reset, data, carried, finished>>

genVars == <<gen_pc, min_temp, max_temp, temperature>>

srvVars == <<received_data, clock, resp, req_ok, sent, th>>

netVars == <<inflight, waiting>>

vars == <<devVars, genVars, srvVars, netVars>>

\* What the steps of run() leave alone.
notDevice == <<genVars, srvVars, netVars>>

sendVars == <<attempt, requests, sleeps, last, all_retryable, carried>>
outVars == <<ret, returned, since_delivered, at_reset, finished>>
endVars == <<session, close_count, exit_kind>>

(***************************************************************************)
(* IoTDevice.__init__: the session is created open; run() not yet entered. *)
(***************************************************************************)
DevInit ==
    /\ pc = "constructed"
    /\ session = "open"
    /\ close_count = 0
    /\ exit_kind = "none"
    /\ consecutive_failures = 0
    /\ attempt = 0
    /\ requests = 0
    /\ sleeps = 0
    /\ sleep_secs = 0
    /\ ret = "none"
    /\ last = NoResult
    /\ all_retryable = TRUE
    /\ returned = {}
    /\ exc = "none"
    /\ cancel_at = "none"
    /\ cycles = 0
    /\ since_delivered = 0
    /\ at_reset = 0
    /\ data = 0
    /\ carried = 0
    /\ finished = {}

\* The reading generator is not exercised.
GenIdle ==
    /\ gen_pc = "idle"
    /\ min_temp = 0
    /\ max_temp = 0
    /\ temperature = 0

(***************************************************************************)
(* JSON values, in one shape: k is the kind, n the number (hundredths for  *)
(* a temperature; in the text of a JSON number, the digits without the     *)
(* sign), s the string (in the text of a JSON number, the sign).           *)
(***************************************************************************)
Absent == [k |-> "absent", n |-> 0, s |-> ""]
JNull == [k |-> "null", n |-> 0, s |-> ""]
JNum(x) == [k |-> "num", n |-> x, s |-> ""]
JStr(str) == [k |-> "str", n |-> 0, s |-> str]
JObj(tag) == [k |-> "obj", n |-> 0, s |-> tag]

\* The keys of a reading (iot_device.py lines 74-84) and the key the
\* receiver adds.
ReadingKeys == {"device_id", "temperature", "unit", "timestamp", "metadata"}
AllKeys == ReadingKeys \cup {"received_at"}
NoReading == [key \in AllKeys |-> Absent]
NoFields == [key \in AllKeys |-> Absent]

NoResp ==
    [op |-> "none", status |-> 0, data_count |-> 0, total_records |-> 0,
     unique_devices |-> 0, count |-> 0, min |-> 0, max |-> 0]

Threads == 1..NThreads
IdleThread == [pc |-> "idle", status |-> 0, data_count |-> 0, pos |-> 0]

\* test_server.py line 21: received_data = []; no request handled yet.
SrvIdle ==
    /\ received_data = <<>>
    /\ clock = 0
    /\ resp = NoResp
    /\ req_ok = TRUE
    /\ sent = NoReading
    /\ th = [t \in Threads |-> IdleThread]

\* No request has been issued.
NetIdle ==
    /\ inflight = <<>>
    /\ waiting = 0

Init == DevInit /\ GenIdle /\ SrvIdle /\ NetIdle

(***************************************************************************)
(* response.raise_for_status(): raises HTTPError exactly for 4xx and 5xx.  *)
(***************************************************************************)
raise_for_status(status) == 400 <= status /\ status < 600

\* Mutant: only status 200 counts as success (status == 200 in place of
\* raise_for_status); every other response is handled as an HTTPError.
AttemptOutcome_Only200(r) ==
    IF r.kind = "response"
    THEN IF r.status = 200 THEN "return_true"
         ELSE IF r.status >= 400 /\ r.status < 500 THEN "return_false"
         ELSE "next_attempt"
    ELSE IF r.kind \in {"ConnectionError", "Timeout", "RequestException", "Exception"}
         THEN "next_attempt"
         ELSE "propagate"

\* Mutant: the `return False` of the HTTPError clause is lost, so a 4xx is
\* retried like a 5xx.
AttemptOutcome_Retry4xx(r) ==
    IF r.kind = "response"
    THEN IF ~raise_for_status(r.status) THEN "return_true"
         ELSE "next_attempt"
    ELSE IF r.kind \in {"ConnectionError", "Timeout", "RequestException", "Exception"}
         THEN "next_attempt"
         ELSE "propagate"

\* Mutant: the catch-all `except Exception` clause of send_data is lost, so
\* an unexpected exception of the post leaves send_data.
AttemptOutcome_NoCatchAll(r) ==
    IF r.kind = "response"
    THEN IF ~raise_for_status(r.status) THEN "return_true"
         ELSE IF r.status < 500 THEN "return_false"
         ELSE "next_attempt"
    ELSE IF r.kind \in {"ConnectionError", "Timeout", "RequestException"}
         THEN "next_attempt"
         ELSE "propagate"

(***************************************************************************)
(* One pass through the try/except of send_data, for the result r of the   *)
(* post: "return_true" (line 112), "return_false" (line 124),              *)
(* "next_attempt" (falls through to line 132) or "propagate" (no except    *)
(* clause matches: a BaseException).                                       *)
(***************************************************************************)
AttemptOutcome(r) ==
    IF r.kind = "response"
    THEN IF ~raise_for_status(r.status) THEN "return_true"
         ELSE IF r.status < 500 THEN "return_false"
         ELSE "next_attempt"
    ELSE IF r.kind \in {"ConnectionError", "Timeout", "RequestException", "Exception"}
         THEN "next_attempt"
         ELSE "propagate"

\* Mutant: off by one, the delay is taken after the final attempt too.
NeedsRetrySleep_AfterLast(a) == a <= max_retries

\* if attempt < self.max_retries: time.sleep(self.retry_delay)
NeedsRetrySleep(a) == a < max_retries

\* for attempt in range(1, self.max_retries + 1)
InRange(a) == 1 <= a /\ a <= max_retries

\* Mutant: the final return of send_data gives True.
ExhaustedValue_True == "True"

\* return False after the loop
ExhaustedValue == "False"

\* Mutant: `= 1` in place of `+= 1`.
AfterDelivery_SetOne(cf, value) == IF value = "True" THEN 0 ELSE 1

\* if success: consecutive_failures = 0 else: consecutive_failures += 1
AfterDelivery(cf, value) == IF value = "True" THEN 0 ELSE cf + 1

\* Mutant: `>` in place of `>=`.
TripsCooldown_Strict(cf) == cf > max_consecutive_failures

\* if consecutive_failures >= max_consecutive_failures
TripsCooldown(cf) == cf >= max_consecutive_failures

\* Mutant: the two except clauses of the inner try carry each other's body.
InnerHandler_Swapped(e) == IF e = "KeyboardInterrupt" THEN "backoff" ELSE "break"

\* Mutant: the KeyboardInterrupt clause is lost (a bare `except:` doing the
\* backoff), so a cancellation is handled like a fault.
InnerHandler_NoBreak(e) == "backoff"

\* Mutant: the loop is left on any exception.
InnerHandler_AlwaysBreak(e) == "break"

(***************************************************************************)
(* The except clauses of the inner try of run(): KeyboardInterrupt breaks  *)
(* the loop, any Exception leads to the backoff sleep.                     *)
(***************************************************************************)
InnerHandler(e) == IF e = "KeyboardInterrupt" THEN "break" ELSE "backoff"

(***************************************************************************)
(* The outer try of run(), reached by an exception raised in the inner     *)
(* except clause: an Exception is caught ("fatal"), a KeyboardInterrupt    *)
(* passes through the finally clause and leaves run().                     *)
(***************************************************************************)
OuterHandler(e) == IF e = "KeyboardInterrupt" THEN "interrupt" ELSE "fatal"

(***************************************************************************)
(* validate_webhook_url: any Exception of the GET is caught and gives      *)
(* False; a KeyboardInterrupt propagates.                                  *)
(***************************************************************************)
validate_webhook_url(ev) ==
    IF ev = "KeyboardInterrupt" THEN "propagate"
    ELSE IF ev = "done" THEN "True" ELSE "False"

\* The places of run() where the thread is in time.sleep.
SleepPlaces == {"retry_sleep", "interval", "cooldown", "backoff"}

NoteCancel(e, place) ==
    cancel_at' = IF e = "KeyboardInterrupt" THEN place ELSE cancel_at

\* cleanup(): self.session.close()
cleanup ==
    /\ session' = "closed"
    /\ close_count' = close_count + 1

\* The finally clause of run(), then run() ends in the way `kind`.
LeaveRun(kind) ==
    /\ cleanup
    /\ exit_kind' = kind
    /\ pc' = "exited"
    /\ sleep_secs' = 0

(***************************************************************************)
(* An exception e raised inside the inner try of run() at `place`.         *)
(***************************************************************************)
RaiseInIteration(e, place) ==
    /\ exc' = e
    /\ NoteCancel(e, place)
    /\ IF InnerHandler(e) = "break"
       THEN LeaveRun("break")
       ELSE /\ pc' = "backoff"
            /\ sleep_secs' = BackoffSecs
            /\ UNCHANGED endVars

(***************************************************************************)
(* run(), lines 160-171: the banner, the startup check of the webhook URL  *)
(* (outside the try/finally), and the initialisation of the counter.       *)
(***************************************************************************)
RunStartup(ev) ==
    /\ pc = "constructed"
    /\ IF validate_webhook_url(ev) = "propagate"
       THEN /\ pc' = "exited"
            /\ exit_kind' = "interrupt"
            /\ exc' = ev
            /\ NoteCancel(ev, "startup")
            /\ UNCHANGED <<session, close_count, consecutive_failures>>
       ELSE /\ pc' = "gen"
            /\ consecutive_failures' = 0
            /\ exc' = "none"
            /\ UNCHANGED <<endVars, cancel_at>>
    /\ UNCHANGED <<sendVars, outVars, sleep_secs, cycles, data>>

\* Mutant: a retry buffer, the reading of a failed delivery is sent again
\* in the next cycle.
NewReading_KeepUndelivered(c) == IF ret = "False" THEN data ELSE c

(***************************************************************************)
(* data = self.generate_temperature_data(): a new record in every cycle,   *)
(* identified here by the number c of the cycle that generates it; nothing *)
(* of an earlier cycle is kept.                                            *)
(***************************************************************************)
NewReading(c) == c

(***************************************************************************)
(* Line 177 and the entry of send_data: a fresh reading, attempt 1.        *)
(***************************************************************************)
Generate(ev) ==
    /\ pc = "gen"
    /\ cycles < MaxCycles
    /\ cycles' = cycles + 1
    /\ IF ev = "done"
       THEN /\ pc' = "post"
            /\ attempt' = 1
            /\ requests' = 0
            /\ sleeps' = 0
            /\ all_retryable' = TRUE
            /\ last' = NoResult
            /\ data' = NewReading(cycles')
            /\ exc' = "none"
            /\ UNCHANGED <<endVars, sleep_secs, cancel_at, carried>>
       ELSE /\ RaiseInIteration(ev, "generate")
            /\ UNCHANGED <<sendVars, data>>
    /\ UNCHANGED <<outVars, consecutive_failures>>

\* A result that the delivery policy calls a retryable failure.
RetryableResult(r) ==
    \/ r.kind \in {"ConnectionError", "Timeout"}
    \/ r.kind = "response" /\ r.status >= 500

(***************************************************************************)
(* send_data returns `value` at the exit point `why`; run() lines 180-194  *)
(* update the counter and enter the cooldown or the interval sleep.        *)
(***************************************************************************)
Return(value, why) ==
    /\ ret' = value
    /\ returned' = returned \cup {<<why, value>>}
    /\ consecutive_failures' = AfterDelivery(consecutive_failures, value)
    /\ since_delivered' = IF value = "True" THEN 0 ELSE since_delivered + 1
    /\ at_reset' = IF value = "True" THEN 0 ELSE at_reset
    /\ finished' = finished \cup {data}
    /\ IF TripsCooldown(consecutive_failures')
       THEN pc' = "cooldown" /\ sleep_secs' = CooldownSecs
       ELSE pc' = "interval" /\ sleep_secs' = interval
    /\ exc' = "none"
    /\ UNCHANGED <<endVars, cancel_at>>

\* The for loop of send_data moves on after attempt `attempt`.
LoopNext ==
    IF InRange(attempt + 1)
    THEN /\ attempt' = attempt + 1
         /\ pc' = "post"
         /\ sleep_secs' = 0
         /\ exc' = "none"
         /\ UNCHANGED <<outVars, endVars, cancel_at, consecutive_failures>>
    ELSE /\ Return(ExhaustedValue, "RetryableFailure")
         /\ UNCHANGED attempt

(***************************************************************************)
(* One attempt of send_data (lines 100-134) with the result r of the post. *)
(***************************************************************************)
Attempt(r) ==
    /\ pc = "post"
    /\ requests' = requests + 1
    /\ last' = r
    /\ all_retryable' = (all_retryable /\ RetryableResult(r))
    /\ carried' = data
    /\ UNCHANGED <<cycles, data>>
    /\ CASE AttemptOutcome(r) = "return_true" ->
                /\ Return("True", "Delivered")
                /\ UNCHANGED <<attempt, sleeps>>
         [] AttemptOutcome(r) = "return_false" ->
                /\ Return("False", "PermanentFailure")
                /\ UNCHANGED <<attempt, sleeps>>
         [] AttemptOutcome(r) = "next_attempt" ->
                IF NeedsRetrySleep(attempt)
                THEN /\ pc' = "retry_sleep"
                     /\ sleeps' = sleeps + 1
                     /\ sleep_secs' = retry_delay
                     /\ exc' = "none"
                     /\ UNCHANGED <<attempt, outVars, endVars, cancel_at,
                                    consecutive_failures>>
                ELSE /\ LoopNext
                     /\ UNCHANGED sleeps
         [] OTHER ->
                /\ RaiseInIteration(r.kind, "post")
                /\ UNCHANGED <<attempt, sleeps, outVars, consecutive_failures>>

\* time.sleep(self.retry_delay), line 134, outside the try of send_data.
RetrySleep(ev) ==
    /\ pc = "retry_sleep"
    /\ IF ev = "done"
       THEN LoopNext
       ELSE /\ RaiseInIteration(ev, "retry_sleep")
            /\ UNCHANGED <<attempt, outVars, consecutive_failures>>
    /\ UNCHANGED <<requests, sleeps, last, all_retryable, cycles, data, carried>>

\* time.sleep(self.interval), line 194.
IntervalSleep(ev) ==
    /\ pc = "interval"
    /\ IF ev = "done"
       THEN /\ pc' = "gen"
            /\ sleep_secs' = 0
            /\ exc' = "none"
            /\ UNCHANGED <<endVars, cancel_at>>
       ELSE RaiseInIteration(ev, "interval")
    /\ UNCHANGED <<sendVars, outVars, consecutive_failures, cycles, data>>

\* time.sleep(30); consecutive_failures = 0; continue -- lines 189-191.
CooldownSleep(ev) ==
    /\ pc = "cooldown"
    /\ IF ev = "done"
       THEN /\ pc' = "gen"
            /\ sleep_secs' = 0
            /\ consecutive_failures' = 0
            /\ at_reset' = since_delivered
            /\ exc' = "none"
            /\ UNCHANGED <<endVars, cancel_at>>
       ELSE /\ RaiseInIteration(ev, "cooldown")
            /\ UNCHANGED <<consecutive_failures, at_reset>>
    /\ UNCHANGED <<sendVars, ret, returned, since_delivered, finished, cycles,
                   data>>

\* time.sleep(10) inside the except clause, line 203.
BackoffSleep(ev) ==
    /\ pc = "backoff"
    /\ IF ev = "done"
       THEN /\ pc' = "gen"
            /\ sleep_secs' = 0
            /\ exc' = "none"
            /\ UNCHANGED <<endVars, cancel_at>>
       ELSE /\ exc' = ev
            /\ NoteCancel(ev, "backoff")
            /\ LeaveRun(OuterHandler(ev))
    /\ UNCHANGED <<sendVars, outVars, consecutive_failures, cycles, data>>

Next ==
    \/ \E ev \in CallEvents : RunStartup(ev) /\ UNCHANGED notDevice
    \/ \E ev \in CallEvents : Generate(ev) /\ UNCHANGED notDevice
    \/ \E r \in PostResults : Attempt(r) /\ UNCHANGED notDevice
    \/ \E ev \in CallEvents : RetrySleep(ev) /\ UNCHANGED notDevice
    \/ \E ev \in CallEvents : IntervalSleep(ev) /\ UNCHANGED notDevice
    \/ \E ev \in CallEvents : CooldownSleep(ev) /\ UNCHANGED notDevice
    \/ \E ev \in CallEvents : BackoffSleep(ev) /\ UNCHANGED notDevice

Spec == Init /\ [][Next]_vars

(***************************************************************************)
(* The reading generator, IoTDevice.generate_temperature_data, as a        *)
(* function of the configured bounds and of the number drawn.  Numbers are *)
(* counted in thousandths, so that bounds with three decimals and the      *)
(* rounding to two decimals are both there.                                *)
(***************************************************************************)
GenBounds == (0 - GenSpan)..GenSpan

\* Mutant: round(..., 1) in place of round(..., 2).
round_2_OneDecimal(x) ==
    LET q == x \div 100
        r == x % 100
    IN  IF r < 50 THEN {100 * q}
        ELSE IF r > 50 THEN {100 * (q + 1)}
        ELSE {100 * q, 100 * (q + 1)}

(***************************************************************************)
(* round(x, 2): the multiple of 0.01 nearest to x.  A decimal tie (x.xx5)  *)
(* is no tie for the binary float, which lies just below or just above it, *)
(* so either neighbour can result.                                         *)
(***************************************************************************)
round_2(x) ==
    LET q == x \div 10
        r == x % 10
    IN  IF r < 5 THEN {10 * q}
        ELSE IF r > 5 THEN {10 * (q + 1)}
        ELSE {10 * q, 10 * (q + 1)}

\* random.uniform(a, b): any number from a to b, both ends included.
uniform(a, b) == a..b

\* The device is configured with bounds min_temp <= max_temp.
GenInit ==
    /\ gen_pc = "configured"
    /\ min_temp \in GenBounds
    /\ max_temp \in GenBounds
    /\ min_temp <= max_temp
    /\ temperature = 0

\* temperature = round(random.uniform(self.min_temp, self.max_temp), 2)
generate_temperature_data ==
    /\ gen_pc \in {"configured", "generated"}
    /\ \E u \in uniform(min_temp, max_temp) :
          temperature' \in round_2(u)
    /\ gen_pc' = "generated"
    /\ UNCHANGED <<min_temp, max_temp, devVars, srvVars, netVars>>

NextGen == generate_temperature_data

InitGen == DevInit /\ GenInit /\ SrvIdle /\ NetIdle

SpecGen == InitGen /\ [][NextGen]_vars

\* x has at most two decimals.
TwoDecimals(x) == x % 10 = 0

(***************************************************************************)
(* C14 as claimed: for all bounds min_temp <= max_temp the temperature     *)
(* generated lies in [min_temp, max_temp] and has two decimals.            *)
(***************************************************************************)
C14_InRangeAnyBounds ==
    gen_pc = "generated" =>
        /\ min_temp <= temperature
        /\ temperature <= max_temp
        /\ TwoDecimals(temperature)

(***************************************************************************)
(* C14 as amended: for all bounds min_temp <= max_temp that have at most   *)
(* two decimals themselves, the temperature generated lies in              *)
(* [min_temp, max_temp] and has two decimals; for any bounds it has two    *)
(* decimals and is within 0.005 of [min_temp, max_temp].                   *)
(***************************************************************************)
C14_InRangeTwoDecimalBounds ==
    gen_pc = "generated" =>
        /\ TwoDecimals(temperature)
        /\ min_temp - 5 <= temperature
        /\ temperature <= max_temp + 5
        /\ (TwoDecimals(min_temp) /\ TwoDecimals(max_temp))
              => (min_temp <= temperature /\ temperature <= max_temp)

\* Bounds -0.02 and 0.01: the value drawn was rounded onto a bound or
\* between the bounds.
C14_Witness ==
    /\ gen_pc = "generated"
    /\ min_temp = 0 - 20
    /\ max_temp = 10
    /\ temperature = 0 - 20

(***************************************************************************)
(* Steps of send_data, as seen from outside.                               *)
(***************************************************************************)
\* This step issues a request.
Issued == pc = "post" /\ requests' = requests + 1
\* This step ends the send_data call with a return value.
Completed == pc = "post" /\ pc' \in {"interval", "cooldown"}
\* This step ends the send_data call after a retry_delay sleep.
CompletedAfterSleep == pc = "retry_sleep" /\ pc' \in {"interval", "cooldown"}
Is2xx(r) == r.kind = "response" /\ r.status >= 200 /\ r.status < 300
Is4xx(r) == r.kind = "response" /\ r.status >= 400 /\ r.status < 500

(***************************************************************************)
(* C1: a response with a status in [200,300) at attempt k makes send_data  *)
(* return True in the same step: k requests were issued by the call, k - 1 *)
(* retry_delay sleeps were taken, and the call is over (no request and no  *)
(* retry sleep follows).                                                   *)
(***************************************************************************)
C1_SuccessReturnsAtOnce ==
    [][(Issued /\ Is2xx(last'))
          => /\ ret' = "True"
             /\ <<"Delivered", "True">> \in returned'
             /\ requests' = attempt
             /\ sleeps' = attempt - 1
             /\ sleeps' = sleeps
             /\ pc' \notin {"post", "retry_sleep"}
             /\ sleep_secs' # retry_delay]_vars

\* A 204 on the second attempt has returned True after two requests.
C1_Witness ==
    /\ pc = "interval"
    /\ ret = "True"
    /\ last = [kind |-> "response", status |-> 204]
    /\ requests = 2
    /\ sleeps = 1

(***************************************************************************)
(* C2: a response with a status in [400,500) at attempt k makes send_data  *)
(* return False in the same step, whatever attempts remain: k requests     *)
(* were issued, no retry_delay sleep is taken after the response, and the  *)
(* call is over.                                                           *)
(***************************************************************************)
C2_ClientErrorAborts ==
    [][(Issued /\ Is4xx(last'))
          => /\ ret' = "False"
             /\ <<"PermanentFailure", "False">> \in returned'
             /\ requests' = attempt
             /\ sleeps' = sleeps
             /\ sleeps' = attempt - 1
             /\ pc' \notin {"post", "retry_sleep"}
             /\ sleep_secs' # retry_delay]_vars

\* A 404 on the first attempt has returned False after one request, with
\* two attempts left unused.
C2_Witness ==
    /\ pc = "interval"
    /\ ret = "False"
    /\ last = [kind |-> "response", status |-> 404]
    /\ requests = 1
    /\ sleeps = 0
    /\ attempt < max_retries

(***************************************************************************)
(* C3: when every attempt of a send_data call ended in a retryable failure *)
(* (connection error, timeout or status >= 500) and the call returns, it   *)
(* has issued exactly max_retries requests, has slept retry_delay exactly  *)
(* max_retries - 1 times, the last attempt is followed by no sleep, and    *)
(* the value returned is False.                                            *)
(***************************************************************************)
C3_ExhaustionCounts ==
    [][((Completed \/ CompletedAfterSleep) /\ all_retryable')
          => /\ Completed
             /\ requests' = max_retries
             /\ sleeps' = max_retries - 1
             /\ ret' = "False"
             /\ <<"RetryableFailure", "False">> \in returned']_vars

\* Three 503 answers in a row: the call has returned False.
C3_Witness ==
    /\ pc = "interval"
    /\ all_retryable
    /\ last = [kind |-> "response", status |-> 503]
    /\ requests = max_retries
    /\ sleeps = max_retries - 1
    /\ ret = "False"

(***************************************************************************)
(* C4: a response whose status is neither in [200,300) nor in [400,500)    *)
(* is retried and never gives True: once send_data has returned, True      *)
(* means the last response was a 2xx, and a last response outside 2xx and  *)
(* 4xx means all max_retries attempts were used and False was returned.    *)
(***************************************************************************)
C4_OtherStatusRetried ==
    /\ (pc \in {"interval", "cooldown"} /\ ret = "True") => Is2xx(last)
    /\ (/\ pc \in {"interval", "cooldown"}
        /\ last.kind = "response"
        /\ ~Is2xx(last)
        /\ ~Is4xx(last))
          => (ret = "False" /\ requests = max_retries)

(***************************************************************************)
(* C5 as claimed: the values returned at different exit points of          *)
(* send_data (success, 4xx rejection, exhaustion) are pairwise distinct.   *)
(***************************************************************************)
C5_TriState ==
    \A p \in returned : \A q \in returned : p[1] # q[1] => p[2] # q[2]

(***************************************************************************)
(* C5 as amended: the outcome is two-valued.  send_data returns True at    *)
(* the success exit and the same value False both on a 4xx rejection and   *)
(* on exhaustion; success is told from failure, the two failures are not   *)
(* told apart.                                                             *)
(***************************************************************************)
C5_TwoValued ==
    /\ returned \subseteq
          {<<"Delivered", "True">>, <<"PermanentFailure", "False">>,
           <<"RetryableFailure", "False">>}
    /\ (pc \in {"interval", "cooldown"}) =>
          (ret = "True" <=> AttemptOutcome(last) = "return_true")

\* All three exit points of send_data have been taken.
C5_Witness ==
    /\ <<"Delivered", "True">> \in returned
    /\ <<"PermanentFailure", "False">> \in returned
    /\ <<"RetryableFailure", "False">> \in returned

\* Deliveries ended non-Delivered in a row, since the last Delivered outcome
\* or the last cooldown reset.
FailureStreak == since_delivered - at_reset

(***************************************************************************)
(* C6: when a delivery ends and it is the max_consecutive_failures-th in a *)
(* row to end non-Delivered, the next thing run() does is the cooldown     *)
(* sleep of 30 s (not the interval sleep, not a request); when that sleep  *)
(* ends normally consecutive_failures is 0 and the loop starts its next    *)
(* iteration with the session open.                                        *)
(***************************************************************************)
C6_CooldownAfterThreshold ==
    /\ [][((Completed \/ CompletedAfterSleep)
              /\ FailureStreak' >= max_consecutive_failures)
             => (pc' = "cooldown" /\ sleep_secs' = CooldownSecs)]_vars
    /\ [](pc = "cooldown" =>
             (sleep_secs = CooldownSecs
                /\ FailureStreak >= max_consecutive_failures))
    /\ [][(pc = "cooldown" /\ pc' # "cooldown" /\ exc' = "none")
             => /\ consecutive_failures' = 0
                /\ pc' = "gen"
                /\ session' = "open"
                /\ exit_kind' = "none"]_vars

\* Five failed deliveries, the cooldown taken and ended: counter 0, running.
C6_Witness ==
    /\ pc = "gen"
    /\ since_delivered = max_consecutive_failures
    /\ at_reset = max_consecutive_failures
    /\ consecutive_failures = 0
    /\ session = "open"

(***************************************************************************)
(* C7 as claimed (its conclusion): at the start of each cycle              *)
(* consecutive_failures is the number of deliveries made since the last    *)
(* Delivered outcome.                                                      *)
(***************************************************************************)
C7_CountsSinceDelivered ==
    pc = "gen" => consecutive_failures = since_delivered

(***************************************************************************)
(* C7 as amended: every completed delivery sets consecutive_failures to 0  *)
(* if it returned True and to its previous value plus one otherwise (4xx   *)
(* and exhaustion alike); at the start of each cycle it is the number of   *)
(* deliveries ended non-Delivered since the last Delivered outcome or the  *)
(* last cooldown reset, whichever came later.                              *)
(***************************************************************************)
C7_CounterUpdate ==
    /\ [][(Completed \/ CompletedAfterSleep)
             => consecutive_failures' =
                   IF AttemptOutcome(last') = "return_true"
                   THEN 0 ELSE consecutive_failures + 1]_vars
    /\ [](pc = "gen" => consecutive_failures = since_delivered - at_reset)

\* The cycle after a cooldown failed too: one failure counted, six
\* deliveries since the last Delivered outcome (none yet).
C7_Witness ==
    /\ pc = "gen"
    /\ consecutive_failures = 1
    /\ since_delivered = max_consecutive_failures + 1
    /\ at_reset = max_consecutive_failures
    /\ <<"PermanentFailure", "False">> \in returned
    /\ <<"RetryableFailure", "False">> \in returned

(***************************************************************************)
(* C8: whenever run() has exited, the session has been closed.             *)
(***************************************************************************)
C8_ClosedOnEveryExit == pc = "exited" => session = "closed"

(***************************************************************************)
(* C9: once a KeyboardInterrupt has arrived during a sleep of run() (retry *)
(* delay, interval, cooldown or backoff), run() has exited with the        *)
(* session closed by exactly one close() call, and no request is issued    *)
(* afterwards.                                                             *)
(***************************************************************************)
C9_CancelInSleep ==
    /\ [](cancel_at \in SleepPlaces =>
             (pc = "exited" /\ session = "closed" /\ close_count = 1))
    /\ [][(cancel_at \in SleepPlaces)
             => (requests' = requests /\ pc' # "post"
                   /\ close_count' = close_count)]_vars
    /\ [][(exc' = "KeyboardInterrupt" /\ pc \in SleepPlaces)
             => cancel_at' = pc]_vars

\* Cancelled in the backoff sleep, which no except clause of run() covers.
C9_Witness ==
    /\ cancel_at = "backoff"
    /\ pc = "exited"
    /\ close_count = 1
    /\ exit_kind = "interrupt"

\* The places inside the inner try of run().
IterationPlaces == {"gen", "post", "retry_sleep", "interval", "cooldown"}

(***************************************************************************)
(* C10: an Exception raised into one iteration of the loop of run() (by    *)
(* the reading generation, by send_data or by a sleep of the iteration)    *)
(* leads to the backoff sleep of 10 s, shorter than the 30 s cooldown,     *)
(* with run() not exited and the session open; when the backoff sleep ends *)
(* normally the loop starts its next iteration.                            *)
(***************************************************************************)
C10_FaultCaughtInIteration ==
    /\ BackoffSecs < CooldownSecs
    /\ [][(exc' = "Exception" /\ pc \in IterationPlaces)
             => /\ pc' = "backoff"
                /\ sleep_secs' = BackoffSecs
                /\ session' = "open"
                /\ exit_kind' = "none"
                /\ consecutive_failures' = consecutive_failures]_vars
    /\ [][(pc = "backoff" /\ pc' # "backoff" /\ exc' = "none")
             => (pc' = "gen" /\ session' = "open" /\ exit_kind' = "none")]_vars

\* The first iteration faulted before any delivery returned; the second
\* iteration is under way.
C10_Witness ==
    /\ pc = "post"
    /\ cycles = 2
    /\ ret = "none"
    /\ session = "open"
    /\ exit_kind = "none"

(***************************************************************************)
(* C11 as claimed: run() has ended only if a cancellation signal arrived.  *)
(***************************************************************************)
C11_StopsOnlyOnCancel == pc = "exited" => cancel_at # "none"

(***************************************************************************)
(* C11 as amended: run() ends only in response to a cancellation signal or *)
(* to an Exception raised while the fault of a previous iteration is being *)
(* handled (in the backoff sleep of the except clause), which the outer    *)
(* handler records as a fatal error; no Exception raised in the try body   *)
(* of an iteration ends the loop.                                          *)
(***************************************************************************)
C11_StopsOnCancelOrHandlerFault ==
    /\ [](pc = "exited" => (cancel_at # "none" \/ exit_kind = "fatal"))
    /\ [][(pc # "exited" /\ pc' = "exited" /\ exc' # "KeyboardInterrupt")
             => (pc = "backoff" /\ exc' = "Exception"
                   /\ exit_kind' = "fatal" /\ session' = "closed")]_vars
    /\ [][(pc \in IterationPlaces /\ exc' = "Exception") => pc' # "exited"]_vars

\* The backoff sleep raised an Exception: run() ended with no cancellation.
C11_Witness ==
    /\ pc = "exited"
    /\ exit_kind = "fatal"
    /\ cancel_at = "none"
    /\ exc = "Exception"
    /\ session = "closed"

\* The results of a post that are failures of the attempt, cancellation
\* apart.
AttemptFailure(r) ==
    \/ r.kind \in {"ConnectionError", "Timeout", "RequestException", "Exception"}
    \/ r.kind = "response" /\ r.status >= 400

(***************************************************************************)
(* C12: an attempt that fails (connection error, timeout, HTTP error       *)
(* status, other request exception, unexpected Exception) raises nothing   *)
(* out of send_data: the step either returns True/False to run() or goes   *)
(* on to the retry sleep of the same call, and a call never issues more    *)
(* than max_retries requests.                                              *)
(***************************************************************************)
C12_FailuresStayInside ==
    /\ [][(Issued /\ AttemptFailure(last'))
             => /\ exc' = "none"
                /\ pc' # "backoff"
                /\ pc' # "exited"
                /\ \/ Completed /\ ret' = "False"
                   \/ pc' = "retry_sleep" /\ attempt < max_retries]_vars
    /\ [](requests <= max_retries /\ attempt <= max_retries)

\* An unexpected Exception on the last attempt, after a connection error
\* and a timeout or the like: the call has returned False.
C12_Witness ==
    /\ pc \in {"interval", "cooldown"}
    /\ last = [kind |-> "Exception", status |-> 0]
    /\ requests = max_retries
    /\ ret = "False"
    /\ exc = "none"

(***************************************************************************)
(* C18: 0 <= consecutive_failures <= max_consecutive_failures always, and  *)
(* consecutive_failures < max_consecutive_failures while a delivery is     *)
(* under way and when the interval sleep is taken.                         *)
(***************************************************************************)
C18_CounterBounded ==
    /\ 0 <= consecutive_failures
    /\ consecutive_failures <= max_consecutive_failures
    /\ pc \in {"post", "retry_sleep", "interval"}
          => consecutive_failures < max_consecutive_failures

(***************************************************************************)
(* C13: every request carries the reading generated at the start of the    *)
(* cycle it is issued in, and never a reading send_data has returned for   *)
(* before: a reading is finished with, delivered or not, when its          *)
(* send_data call returns.                                                 *)
(***************************************************************************)
C13_UndeliveredDropped ==
    /\ [][Issued => /\ carried' = data
                    /\ carried' = cycles
                    /\ carried' \notin finished]_vars
    /\ [][(Completed \/ CompletedAfterSleep)
             => (finished' = finished \cup {data} /\ data' = data)]_vars
    /\ [](pc \in {"post", "retry_sleep"} => data \notin finished)

\* The first reading was not delivered; the second cycle sends the second
\* reading.
C13_Witness ==
    /\ pc = "retry_sleep"
    /\ cycles = 2
    /\ carried = 2
    /\ finished = {1}
    /\ since_delivered = 1
    /\ ret = "False"

(***************************************************************************)
(* The wire format: json.dumps on the device side (the json= argument of   *)
(* session.post, iot_device.py line 103) and json.loads on the receiver    *)
(* side (request.get_json, test_server.py line 28).  A number is written   *)
(* as a sign and digits and read back from them; the other values are      *)
(* written and read as they are.                                           *)
(***************************************************************************)
Abs(x) == IF x < 0 THEN 0 - x ELSE x

json_dumps_value(v) ==
    IF v.k = "num"
    THEN [k |-> "num", n |-> Abs(v.n), s |-> IF v.n < 0 THEN "-" ELSE ""]
    ELSE v

\* Mutant: the sign of a number is not read.
json_loads_value_Unsigned(w) ==
    IF w.k = "num" THEN [k |-> "num", n |-> w.n, s |-> ""] ELSE w

json_loads_value(w) ==
    IF w.k = "num"
    THEN [k |-> "num", n |-> IF w.s = "-" THEN 0 - w.n ELSE w.n, s |-> ""]
    ELSE w

(***************************************************************************)
(* A request body as it arrives: `form` says what JSON text it is          *)
(* ("invalid": no JSON at all; "falsy": null, 0, "", [] or false;          *)
(* "number": a non-zero number or true; "list": a non-empty list;          *)
(* "object": a JSON object), `fields` holds the members of an object, an   *)
(* object without members being {}.                                        *)
(***************************************************************************)
ObjectBody(f) == [form |-> "object", fields |-> f]
OtherBody(form) == [form |-> form, fields |-> NoFields]

\* session.post(self.webhook_url, json=data): the body of a device post.
requests_json(reading) ==
    ObjectBody([key \in AllKeys |-> json_dumps_value(reading[key])])

\* The readings a device produces (generate_temperature_data): its
\* device_id, a temperature rounded to hundredths, the unit, a timestamp
\* and the metadata object.
DeviceIds == {"dev-a", "dev-b"}
DeviceTemps == {0 - 500, 1990}
MakeReading(dev, t) ==
    [key \in AllKeys |->
        CASE key = "device_id" -> JStr(dev)
          [] key = "temperature" -> JNum(t)
          [] key = "unit" -> JStr("celsius")
          [] key = "timestamp" -> JStr("t1")
          [] key = "metadata" -> JObj("sensor")
          [] OTHER -> Absent]
DeviceReadings == {MakeReading(dev, t) : dev \in DeviceIds, t \in DeviceTemps}

\* Bodies other clients may post: members missing, of the wrong type, blank.
OtherObjects ==
    {[key \in AllKeys |->
        CASE key = "device_id" -> dv
          [] key = "temperature" -> tv
          [] key = "timestamp" -> ts
          [] key = "unit" -> JStr("celsius")
          [] OTHER -> Absent] :
        dv \in {Absent, JStr("dev-a"), JStr("  "), JNum(7)},
        tv \in {Absent, JStr("21.5"), JStr("nan"), JStr("abc"), JNull},
        ts \in {Absent, JStr("t1"), JNull}}
RequestBodies ==
    {ObjectBody(f) : f \in OtherObjects}
        \cup {OtherBody(form) : form \in {"invalid", "falsy", "number", "list"}}

\* float(x) of a string: the strings that are numbers, and their values.
\* float("nan") succeeds and is the float that compares false with every
\* float; it is written here as a number no temperature of the model has.
NaN == 99999
NumericStrings == {"21.5", "nan"}
StrToFloat(str) == IF str = "nan" THEN NaN ELSE 2150

\* a < b of two floats
FloatLt(a, b) == a # NaN /\ b # NaN /\ a < b

\* float(v) succeeds (no ValueError, no TypeError).
FloatOk(v) == v.k = "num" \/ (v.k = "str" /\ v.s \in NumericStrings)
\* float(v)
ToFloat(v) == IF v.k = "num" THEN v.n ELSE StrToFloat(v.s)

\* isinstance(device_id, str) and device_id.strip()
DeviceIdOk(v) == v.k = "str" /\ v.s \notin {"", "  "}

\* data = request.get_json(), for a body that is JSON text.
get_json(body) == [key \in AllKeys |-> json_loads_value(body.fields[key])]

\* `not data`
Falsy(body) ==
    \/ body.form = "falsy"
    \/ body.form = "object" /\ \A key \in AllKeys : body.fields[key] = Absent

required_fields == {"device_id", "temperature", "timestamp"}

\* [field for field in required_fields if field not in data]
missing_fields(body) ==
    {field \in required_fields : get_json(body)[field] = Absent}

(***************************************************************************)
(* The status webhook() answers a body with, lines 26-91.  get_json raises *)
(* BadRequest for a body that is no JSON; BadRequest is no JSONDecodeError *)
(* and is caught by `except Exception` (500).  `field not in data` raises  *)
(* TypeError for a number, outside the inner try (500).  The timestamp is  *)
(* looked for and not looked at.                                           *)
(***************************************************************************)
webhook_status(body) ==
    IF body.form = "invalid" THEN 500
    ELSE IF Falsy(body) THEN 400
    ELSE IF body.form = "number" THEN 500
    ELSE IF missing_fields(body) # {} THEN 400
    ELSE IF ~FloatOk(get_json(body)["temperature"]) THEN 400
    ELSE IF ~DeviceIdOk(get_json(body)["device_id"]) THEN 400
    ELSE 200

\* datetime.now().isoformat() at the tick c of the receiver's clock.
Now(c) == [k |-> "str", n |-> c, s |-> "now"]

\* data['received_at'] = datetime.now().isoformat()
StoredRecord(parsed, now) == [parsed EXCEPT !["received_at"] = now]

\* Mutant: received_data.insert(0, data).
StoreAppend_AtFront(store, rec) == <<rec>> \o store

\* received_data.append(data)
StoreAppend(store, rec) == Append(store, rec)

\* What the claims call a complete and well-formed body: an object with a
\* non-blank string device_id, a numeric temperature and a string timestamp.
WellFormedRequest(body) ==
    /\ body.form = "object"
    /\ DeviceIdOk(body.fields["device_id"])
    /\ FloatOk(body.fields["temperature"])
    /\ body.fields["timestamp"].k = "str"

(***************************************************************************)
(* webhook(), handled from start to end with no other request in between.  *)
(***************************************************************************)
Handle(body, reading) ==
    /\ clock' = clock + 1
    /\ req_ok' = WellFormedRequest(body)
    /\ sent' = reading
    /\ IF webhook_status(body) = 200
       THEN /\ received_data' =
                  StoreAppend(received_data,
                              StoredRecord(get_json(body), Now(clock')))
            /\ resp' = [NoResp EXCEPT !.op = "webhook", !.status = 200,
                                      !.data_count = Len(received_data')]
       ELSE /\ UNCHANGED received_data
            /\ resp' = [NoResp EXCEPT !.op = "webhook",
                                      !.status = webhook_status(body)]
    /\ UNCHANGED <<th, devVars, genVars>>

\* POST /webhook by any client.
Webhook(body) ==
    clock < MaxPosts /\ Handle(body, NoReading) /\ UNCHANGED netVars

\* POST /webhook by a device: the body is its reading as JSON.
DevicePost(reading) ==
    /\ clock < MaxPosts
    /\ Handle(requests_json(reading), reading)
    /\ UNCHANGED netVars

\* [float(d.get('temperature', 0)) for d in received_data if 'temperature' in d]
stats_temperatures(store) ==
    LET with == SelectSeq(store, LAMBDA d : d["temperature"] # Absent)
    IN  [i \in 1..Len(with) |-> ToFloat(with[i]["temperature"])]

\* set(d.get('device_id') for d in received_data)
stats_devices(store) == {store[i]["device_id"] : i \in 1..Len(store)}

\* min(q) and max(q) of a non-empty list: the first item is kept until a
\* later item compares less (greater) than the one kept.
RECURSIVE MinFrom(_, _, _)
MinFrom(q, i, kept) ==
    IF i > Len(q) THEN kept
    ELSE MinFrom(q, i + 1, IF FloatLt(q[i], kept) THEN q[i] ELSE kept)
RECURSIVE MaxFrom(_, _, _)
MaxFrom(q, i, kept) ==
    IF i > Len(q) THEN kept
    ELSE MaxFrom(q, i + 1, IF FloatLt(kept, q[i]) THEN q[i] ELSE kept)
SeqMin(q) == MinFrom(q, 2, q[1])
SeqMax(q) == MaxFrom(q, 2, q[1])

\* GET /stats, lines 126-153.
GetStats ==
    /\ resp' =
          IF received_data = <<>>
          THEN [NoResp EXCEPT !.op = "stats", !.status = 200]
          ELSE LET temperatures == stats_temperatures(received_data)
               IN  [op |-> "stats", status |-> 200, data_count |-> 0,
                    total_records |-> Len(received_data),
                    unique_devices |-> Cardinality(stats_devices(received_data)),
                    count |-> Len(temperatures),
                    min |-> IF Len(temperatures) > 0 THEN SeqMin(temperatures) ELSE 0,
                    max |-> IF Len(temperatures) > 0 THEN SeqMax(temperatures) ELSE 0]
    /\ UNCHANGED <<received_data, clock, req_ok, sent, th, devVars, genVars,
                   netVars>>

\* POST /clear, lines 166-174.
ClearData ==
    /\ received_data' = <<>>
    /\ resp' = [NoResp EXCEPT !.op = "clear", !.status = 200,
                              !.count = Len(received_data)]
    /\ UNCHANGED <<clock, req_ok, sent, th, devVars, genVars, netVars>>

\* GET /data with the device_id filter and the limit (0: none), lines 97-114.
get_data(store, device_id, limit) ==
    LET filtered == IF device_id # ""
                    THEN SelectSeq(store, LAMBDA d : d["device_id"] = JStr(device_id))
                    ELSE store
    IN  IF limit > 0 /\ limit < Len(filtered)
        THEN SubSeq(filtered, Len(filtered) - limit + 1, Len(filtered))
        ELSE filtered

NextSrv ==
    \/ \E body \in RequestBodies : Webhook(body)
    \/ \E reading \in DeviceReadings : DevicePost(reading)
    \/ GetStats
    \/ ClearData

InitSrv == DevInit /\ GenIdle /\ SrvIdle /\ NetIdle

SpecSrv == InitSrv /\ [][NextSrv]_vars

(***************************************************************************)
(* The receiver with its request threads (app.run(threaded=True)): each    *)
(* POST /webhook is handled by a thread, and another thread may run        *)
(* between the append of line 64 and the len(received_data) of line 74.    *)
(***************************************************************************)
ConcBodies ==
    {requests_json(reading) : reading \in DeviceReadings}
        \cup {OtherBody("invalid")}

\* Lines 26-64: the body is checked and, if accepted, stamped and appended.
ThreadReceive(t, body) ==
    /\ th[t].pc = "idle"
    /\ clock < MaxPosts
    /\ clock' = clock + 1
    /\ IF webhook_status(body) = 200
       THEN /\ received_data' =
                  StoreAppend(received_data,
                              StoredRecord(get_json(body), Now(clock')))
            /\ th' = [th EXCEPT ![t] = [pc |-> "stored", status |-> 0,
                                        data_count |-> 0,
                                        pos |-> Len(received_data')]]
       ELSE /\ UNCHANGED received_data
            /\ th' = [th EXCEPT ![t] = [pc |-> "replied",
                                        status |-> webhook_status(body),
                                        data_count |-> 0, pos |-> 0]]
    /\ UNCHANGED <<resp, req_ok, sent, devVars, genVars, netVars>>

\* Lines 67-77: the response is built, "data_count": len(received_data).
ThreadRespond(t) ==
    /\ th[t].pc = "stored"
    /\ th' = [th EXCEPT ![t] = [pc |-> "replied", status |-> 200,
                                data_count |-> Len(received_data),
                                pos |-> th[t].pos]]
    /\ UNCHANGED <<received_data, clock, resp, req_ok, sent, devVars, genVars,
                   netVars>>

\* The response has gone out; the thread takes up the next request.
ThreadDone(t) ==
    /\ th[t].pc = "replied"
    /\ th' = [th EXCEPT ![t] = IdleThread]
    /\ UNCHANGED <<received_data, clock, resp, req_ok, sent, devVars, genVars,
                   netVars>>

NextConc ==
    \/ \E t \in Threads : \E body \in ConcBodies : ThreadReceive(t, body)
    \/ \E t \in Threads : ThreadRespond(t)
    \/ \E t \in Threads : ThreadDone(t)

InitConc == DevInit /\ GenIdle /\ SrvIdle /\ NetIdle

SpecConc == InitConc /\ [][NextConc]_vars

(***************************************************************************)
(* The device posting to the companion receiver.  A request the device     *)
(* issues reaches the receiver, which handles it at some later moment; the *)
(* post of send_data ends when the response arrives, or with Timeout after *)
(* request_timeout seconds whatever the receiver has done with the request *)
(* by then, or with ConnectionError when the request never left.           *)
(***************************************************************************)
\* The reading of cycle c as generate_temperature_data builds it; the
\* timestamp (datetime.now()) is that of its cycle.
ReadingOf(c) ==
    [MakeReading("dev-a", 1990) EXCEPT
        !["timestamp"] = [k |-> "str", n |-> c, s |-> "t"]]

\* self.session.post(...), lines 101-105: the request goes out.
IssuePost ==
    /\ pc = "post"
    /\ waiting = 0
    /\ inflight' = Append(inflight, [reading |-> data, st |-> "sent", status |-> 0])
    /\ waiting' = Len(inflight')
    /\ UNCHANGED <<devVars, genVars, srvVars>>

\* The connection cannot be made: the post raises ConnectionError and the
\* receiver never sees the request.
ConnectFails ==
    /\ pc = "post"
    /\ waiting = 0
    /\ Attempt([kind |-> "ConnectionError", status |-> 0])
    /\ UNCHANGED notDevice

\* webhook() runs for request i, whether or not the device still waits.
ServerHandles(i) ==
    /\ inflight[i].st = "sent"
    /\ Handle(requests_json(ReadingOf(inflight[i].reading)),
              ReadingOf(inflight[i].reading))
    /\ inflight' = [inflight EXCEPT ![i] = [reading |-> inflight[i].reading,
                                            st |-> "replied",
                                            status |-> resp'.status]]
    /\ UNCHANGED waiting

\* The response reaches the device within the timeout.
ResponseArrives ==
    /\ pc = "post"
    /\ waiting > 0
    /\ inflight[waiting].st = "replied"
    /\ Attempt([kind |-> "response", status |-> inflight[waiting].status])
    /\ waiting' = 0
    /\ UNCHANGED <<inflight, genVars, srvVars>>

\* timeout=self.request_timeout, line 104: no response in time.
AttemptTimesOut ==
    /\ pc = "post"
    /\ waiting > 0
    /\ Attempt([kind |-> "Timeout", status |-> 0])
    /\ waiting' = 0
    /\ UNCHANGED <<inflight, genVars, srvVars>>

NextE2E ==
    \/ RunStartup("done") /\ UNCHANGED notDevice
    \/ cycles < MaxReadings /\ Generate("done") /\ UNCHANGED notDevice
    \/ IssuePost
    \/ ConnectFails
    \/ \E i \in 1..Len(inflight) : ServerHandles(i)
    \/ ResponseArrives
    \/ AttemptTimesOut
    \/ RetrySleep("done") /\ UNCHANGED notDevice
    \/ IntervalSleep("done") /\ UNCHANGED notDevice

InitE2E == DevInit /\ GenIdle /\ SrvIdle /\ NetIdle

SpecE2E == InitE2E /\ [][NextE2E]_vars

\* The number of stored records that are the reading of cycle c.
StoredCopies(c) ==
    Cardinality({i \in 1..Len(received_data) :
                    \A key \in ReadingKeys :
                        received_data[i][key] = ReadingOf(c)[key]})

\* The four members of a reading that the round trip is about.
RoundTripKeys == {"device_id", "temperature", "unit", "timestamp"}

C16_RejectsBadAcceptsGood ==
    resp.op = "webhook" =>
        IF req_ok
        THEN resp.status >= 200 /\ resp.status < 300
        ELSE resp.status >= 400 /\ resp.status < 500

\* The temperatures of the stored records, as numbers.
StoredTemps == {ToFloat(received_data[i]["temperature"]) : i \in 1..Len(received_data)}

(***************************************************************************)
(* C17: with a non-empty store, GET /stats reports total_records and       *)
(* temperature_stats.count equal to the number of stored records,          *)
(* unique_devices equal to the number of distinct device_id values, and    *)
(* min/max equal to the smallest/largest stored temperature.               *)
(***************************************************************************)
C17_StatsMatchStore ==
    (resp.op = "stats" /\ received_data # <<>>) =>
        /\ resp.total_records = Len(received_data)
        /\ resp.count = Len(received_data)
        /\ resp.unique_devices =
              Cardinality({received_data[i]["device_id"].s : i \in 1..Len(received_data)})
        /\ resp.min \in StoredTemps
        /\ resp.max \in StoredTemps
        /\ \A x \in StoredTemps :
              /\ resp.min = x \/ FloatLt(resp.min, x)
              /\ resp.max = x \/ FloatLt(x, resp.max)

\* Sequence p is the beginning of sequence q.
IsPrefix(p, q) == Len(p) <= Len(q) /\ SubSeq(q, 1, Len(p)) = p

(***************************************************************************)
(* C19: a POST /webhook answered with a non-2xx status leaves the store as *)
(* it was; one answered with a 2xx status adds exactly one record at the   *)
(* end and leaves the earlier records and their order as they were; a step *)
(* after which the old store is not the beginning of the new one is a      *)
(* POST /clear.                                                            *)
(***************************************************************************)
C19_StoreFrame ==
    /\ [][(clock' = clock + 1) =>
             IF resp'.status >= 200 /\ resp'.status < 300
             THEN /\ Len(received_data') = Len(received_data) + 1
                  /\ IsPrefix(received_data, received_data')
             ELSE received_data' = received_data]_vars
    /\ [][(~IsPrefix(received_data, received_data')) => resp'.op = "clear"]_vars
    /\ [][(resp'.op \notin {"webhook", "clear"}) =>
             received_data' = received_data]_vars

\* A body that is no JSON was answered 500 with two records stored before.
C19_Witness ==
    /\ resp.op = "webhook"
    /\ resp.status = 500
    /\ Len(received_data) = 2
    /\ clock = 3

(***************************************************************************)
(* C20: with requests handled by concurrent threads and no /clear, every   *)
(* accepted request is stored exactly once and the data_count it is        *)
(* answered with is the position of its record in the store, so that two   *)
(* accepted requests never get the same data_count.                        *)
(***************************************************************************)
C20_DataCountIsPosition ==
    /\ \A t \in Threads :
          (th[t].pc = "replied" /\ th[t].status = 200) =>
              /\ th[t].pos \in 1..Len(received_data)
              /\ th[t].data_count = th[t].pos
    /\ \A t \in Threads : \A u \in Threads :
          (/\ t # u
           /\ th[t].pc = "replied" /\ th[t].status = 200
           /\ th[u].pc = "replied" /\ th[u].status = 200)
             => th[t].data_count # th[u].data_count

(***************************************************************************)
(* C21: with the device posting to the receiver and no /clear, once        *)
(* send_data has returned for a reading, the reading is in the receiver's  *)
(* store exactly once if send_data returned True and not at all if it      *)
(* returned False, whatever the order of timeouts and request handling.    *)
(***************************************************************************)
C21_OutcomeAgreesWithStore ==
    (data \in finished) =>
        /\ ret = "True" => StoredCopies(data) = 1
        /\ ret = "False" => StoredCopies(data) = 0

TypeOK ==
    /\ pc \in {"constructed", "gen", "post", "retry_sleep", "interval",
               "cooldown", "backoff", "exited"}
    /\ session \in {"open", "closed"}
    /\ close_count \in 0..2
    /\ exit_kind \in {"none", "break", "fatal", "interrupt"}
    /\ consecutive_failures \in 0..(MaxCycles + 1)
    /\ attempt \in 0..max_retries
    /\ requests \in 0..max_retries
    /\ sleeps \in 0..max_retries
    /\ sleep_secs \in {0, retry_delay, interval, CooldownSecs, BackoffSecs}
    /\ ret \in {"none", "True", "False"}
    /\ last \in PostResults \cup {NoResult}
    /\ all_retryable \in BOOLEAN
    /\ exc \in {"none", "Exception", "KeyboardInterrupt"}
    /\ cancel_at \in SleepPlaces \cup {"none", "startup", "generate", "post"}
    /\ cycles \in 0..MaxCycles
    /\ since_delivered \in 0..MaxCycles
    /\ at_reset \in 0..MaxCycles
    /\ data \in 0..MaxCycles
    /\ carried \in 0..MaxCycles
    /\ finished \subseteq 1..MaxCycles

=============================================================================
